---- MODULE Spec2Model ----
(***************************************************************************)
(* A model of the verification engine of aoj-verify: the function verify   *)
(* (build the solution, walk the cache directory, run every test case,     *)
(* judge it, print the summary) together with filesAreEqual and the        *)
(* Stopwatch it uses.                                                      *)
(*                                                                         *)
(* File paths and file contents are byte strings, modelled as sequences of *)
(* byte values, so that sorting, suffix tests and comparisons are computed *)
(* as the code computes them.                                              *)
(***************************************************************************)
EXTENDS Integers, Sequences, FiniteSets, TLC

VARIABLES
    pc,             \* position of the program, in main or in verify
    headers,        \* testcasesHeaderResponse.Headers: the test-case names
    h,              \* index of main's loop over headers (1-based)
    downloadErr,    \* main's multiErr: the joined download errors
    cacheEntries,   \* the entries below cacheDir: records [path, isDir]
    tmpDir,         \* "none" | "present" | "removed": the scratch directory
    tmpFiles,       \* paths of the files in the scratch directory
    alive,          \* the running subprocesses: <<"build", 0>>, <<"case", idx>>
    buildCmdStdErr, \* the buffer bound to the build's stderr
    envFailure,     \* history: which environment call failed, "none" if none
    inFilepaths,    \* the slice of input paths
    walkUnsorted,   \* history: the walk reported the paths out of order
    idx,            \* index of the loop over inFilepaths (1-based)
    openFiles,      \* open file handles: <<"in" | "answer", idx>>
    answerBytes,    \* content of the answer file of the current case
    startTime,      \* Stopwatch.startTime
    now,            \* the monotonic clock
    runErr,         \* err of runCmd.Run() of the current case
    elapsed,        \* elapsed of the current case
    runCalls,       \* history: the input paths runCmd.Run() was called for
    multiErr,       \* the joined per-case errors
    runResults,     \* the slice of *runResult
    log,            \* the entries written by slog.Info
    ret             \* the value verify returned

vars == <<pc, headers, h, downloadErr, cacheEntries, tmpDir, tmpFiles,
          alive, buildCmdStdErr,
          envFailure, inFilepaths, walkUnsorted, idx, openFiles, answerBytes,
          startTime, now, runErr, elapsed, runCalls, multiErr, runResults,
          log, ret>>

\* the variables of main's download loop
mainVars == <<headers, h, downloadErr>>

\* the variables only verify writes
verifyVars == <<tmpDir, tmpFiles, alive, buildCmdStdErr, envFailure,
                inFilepaths, walkUnsorted, idx, openFiles, answerBytes,
                startTime, now, runErr, elapsed, runCalls, multiErr,
                runResults, log, ret>>

-----------------------------------------------------------------------------
(* Bounds of the model *)

\* the largest number of test cases in the cache directory
MaxCases == 3
\* the largest number of clock ticks one subprocess run takes
MaxElapsed == 2
\* the largest number of test cases where termination is checked
MaxLiveCases == 2
\* the largest number of test cases the judge's header response lists
MaxHeaders == 2

-----------------------------------------------------------------------------
(* Byte strings *)

\* "c": the cache directory
CacheDirPath == <<99>>
\* "t": the scratch directory os.MkdirTemp makes
TmpDirPath == <<116>>
\* ".in" and ".out"
SuffixIn == <<46, 105, 110>>
SuffixOut == <<46, 111, 117, 116>>
\* the test-case stems below the cache directory: "a", "a/b", "a-b", "b"
\* ("-" sorts before ".", "/" after it)
Stems == { <<97>>, <<97, 47, 98>>, <<97, 45, 98>>, <<98>> }
\* "42\n", what every expected-output file holds
ExpectedBytes == <<52, 50, 10>>
\* what a solution may print: "42\n" or "43\n"
Outputs == { <<52, 50, 10>>, <<52, 51, 10>> }
\* what the build leaves in the stderr buffer when it fails: nothing when the
\* toolchain could not be started, else the toolchain's messages
Diagnostics == { "", "syntax error", "undefined: x" }

Join(dir, name) == dir \o <<47>> \o name

HasSuffix(s, suffix) ==
    /\ Len(s) >= Len(suffix)
    /\ SubSeq(s, Len(s) - Len(suffix) + 1, Len(s)) = suffix

TrimSuffix(s, suffix) ==
    IF HasSuffix(s, suffix) THEN SubSeq(s, 1, Len(s) - Len(suffix)) ELSE s

\* Go's < on strings: bytewise, a proper prefix is smaller
RECURSIVE StringLess(_, _)
StringLess(a, b) ==
    IF b = <<>> THEN FALSE
    ELSE IF a = <<>> THEN TRUE
    ELSE IF Head(a) # Head(b) THEN Head(a) < Head(b)
    ELSE StringLess(Tail(a), Tail(b))

\* the directory a path lies in
Dir(path) ==
    LET slashes == { j \in 1..Len(path) : path[j] = 47 }
    IN  IF slashes = {} THEN <<>>
        ELSE SubSeq(path, 1, (CHOOSE j \in slashes :
                                \A k \in slashes : k <= j) - 1)

\* path lies below the directory dir
IsUnder(dir, path) ==
    /\ Len(path) > Len(dir) + 1
    /\ SubSeq(path, 1, Len(dir) + 1) = dir \o <<47>>

\* binaryFilepath := filepath.Join(tmpDir, "main")
BinaryFilepath == Join(TmpDirPath, <<109, 97, 105, 110>>)

\* rand.Text() of the i-th case: a fresh name each time
RandText(i) == <<48 + i>>

AnswerFilepathInCache(dir, i) ==
    Join(CacheDirPath, <<97, 110, 115, 119, 101, 114>> \o RandText(i))

\* answerFilepath := filepath.Join(tmpDir, "answer"+rand.Text())
AnswerFilepath(dir, i) ==
    Join(dir, <<97, 110, 115, 119, 101, 114>> \o RandText(i))

-----------------------------------------------------------------------------
(* The cache directory *)

\* the files below the scratch directory once a file is created at path
TmpFilesWith(files, path) ==
    IF IsUnder(TmpDirPath, path) THEN files \cup {path} ELSE files

\* the entries below the cache directory once a file is created at path
CacheEntriesWith(entries, path) ==
    IF IsUnder(CacheDirPath, path)
    THEN entries \cup {[path |-> path, isDir |-> FALSE]}
    ELSE entries

\* the directories a stem lies in, below the cache directory
StemDirs(stem) ==
    { Join(CacheDirPath, SubSeq(stem, 1, i - 1)) :
        i \in { j \in 1..Len(stem) : stem[j] = 47 } }

\* the cache directory holding the pairs <stem>.in / <stem>.out
CacheEntriesOf(stems) ==
    {[path |-> CacheDirPath, isDir |-> TRUE]}
    \cup { [path |-> d, isDir |-> TRUE] :
            d \in UNION { StemDirs(s) : s \in stems } }
    \cup { [path |-> Join(CacheDirPath, s) \o SuffixIn, isDir |-> FALSE] :
            s \in stems }
    \cup { [path |-> Join(CacheDirPath, s) \o SuffixOut, isDir |-> FALSE] :
            s \in stems }

\* the content of a file of the cache directory
CacheFileBytes(path) == ExpectedBytes

\* os.Stat(path) finds an entry
existsFileOrDir(entries, path) == \E e \in entries : e.path = path

isTestcaseCached(entries, dir, testcaseName) ==
    existsFileOrDir(entries, Join(dir, testcaseName \o SuffixIn))

\* os.Create(path) can succeed: the directory of path is there
CanCreate(entries, path) ==
    \E e \in entries : e.path = Dir(path) /\ e.isDir

\* the entries once os.MkdirAll(dir) succeeded
MkdirAll(entries, dir) == entries \cup {[path |-> dir, isDir |-> TRUE]}

\* the entries once os.Create(path) succeeded
Create(entries, path) == entries \cup {[path |-> path, isDir |-> FALSE]}

\* how far fetchTestcaseAndSaveToFile can get: "get" (the request, the
\* read of the body or its decoding fails), "mkdir", "in", "out" (that call
\* fails) or "ok"
FetchOutcomes(entries, dir, filename) ==
    {"get"}
    \cup (IF existsFileOrDir(entries, dir) THEN {} ELSE {"mkdir"})
    \cup {"in"}
    \cup (IF CanCreate(MkdirAll(entries, dir), Join(dir, filename \o SuffixIn))
          THEN {"out", "ok"}
          ELSE {})

\* the entries fetchTestcaseAndSaveToFile leaves
FetchEntries(entries, dir, filename, outcome) ==
    LET inPath == Join(dir, filename \o SuffixIn)
        outPath == Join(dir, filename \o SuffixOut)
    IN  CASE outcome \in {"get", "mkdir"} -> entries
          [] outcome = "in" -> MkdirAll(entries, dir)
          [] outcome = "out" -> Create(MkdirAll(entries, dir), inPath)
          [] outcome = "ok" ->
               Create(Create(MkdirAll(entries, dir), inPath), outPath)

\* the header responses of the judge: lists of distinct names
HeaderLists ==
    { hs \in UNION { [1..n -> Stems] : n \in 0..MaxHeaders } :
        \A i, j \in 1..Len(hs) : hs[i] = hs[j] => i = j }

-----------------------------------------------------------------------------
(* runStatus *)

unknown == 0
accepted == 1
wrongAnswer == 2
runtimeError == 3
timeLimitExceeded == 4

newRunResultNoStatus(testcaseName, status, execTime) ==
    [testcaseName |-> testcaseName, status |-> unknown, execTime |-> execTime]

newRunResult(testcaseName, status, execTime) ==
    [testcaseName |-> testcaseName, status |-> status, execTime |-> execTime]

-----------------------------------------------------------------------------
(* Stopwatch *)

StopwatchStart(clock) == clock

StopwatchElapsed(sw, clock) == clock - sw

-----------------------------------------------------------------------------
(* Values verify returns and logs *)

NoReturn == [kind |-> "pending", diag |-> "", errs |-> <<>>]
ReturnNil == [kind |-> "nil", diag |-> "", errs |-> <<>>]
MkdirError == [kind |-> "mkdir", diag |-> "", errs |-> <<>>]
WalkError == [kind |-> "walk", diag |-> "", errs |-> <<>>]

BuildErrorNoDiag(stderr) == [kind |-> "build", diag |-> "", errs |-> <<>>]

BuildError(stderr) == [kind |-> "build", diag |-> stderr, errs |-> <<>>]

RunCaseError(errs) == [kind |-> "runcase", diag |-> "", errs |-> errs]

ErrorsJoinKeepsLast(errs, what, path) == <<[what |-> what, path |-> path]>>

\* errors.Join(multiErr, fmt.Errorf(what, err))
ErrorsJoin(errs, what, path) == Append(errs, [what |-> what, path |-> path])

\* slog.Info(msg, testcase, time)
CaseEntry(msg, testcase, time) ==
    [msg |-> msg, testcase |-> testcase, time |-> time, counts |-> <<>>]

\* the summary entry: slog.Info("summary", ...)
SummaryEntry(sum) ==
    [msg |-> "summary", testcase |-> sum.slowestTestcaseName,
     time |-> sum.slowestTime,
     counts |-> <<sum.acCount, sum.waCount, sum.tleCount, sum.reCount>>]

-----------------------------------------------------------------------------
(* The pure parts of verify *)

WalkFnDirsToo(path, isDir) == isDir \/ HasSuffix(path, SuffixIn)

\* the callback of filepath.WalkDir: does it append path to inFilepaths
WalkFn(path, isDir) == ~isDir /\ HasSuffix(path, SuffixIn)

\* the orders in which a walk may report a set of paths
WalkOrders(paths) ==
    { f \in [1..Cardinality(paths) -> paths] :
        \A i, j \in 1..Cardinality(paths) : i # j => f[i] # f[j] }

RECURSIVE InsertSorted(_, _)
InsertSorted(x, s) ==
    IF s = <<>> THEN <<x>>
    ELSE IF StringLess(x, Head(s)) THEN <<x>> \o s
    ELSE <<Head(s)>> \o InsertSorted(x, Tail(s))

SlicesSortNothing(s) == s

\* slices.Sort(inFilepaths)
RECURSIVE SlicesSort(_)
SlicesSort(s) ==
    IF s = <<>> THEN <<>> ELSE InsertSorted(Head(s), SlicesSort(Tail(s)))

\* base := strings.TrimSuffix(inFilepath, ".in")
Base(inFilepath) == TrimSuffix(inFilepath, SuffixIn)

\* outFilepath := base + ".out"
OutFilepath(inFilepath) == Base(inFilepath) \o SuffixOut

\* filesAreEqual on two files holding b1 and b2; ioErr: opening or reading
\* one of them fails
filesAreEqual(b1, b2, ioErr) ==
    IF ioErr THEN [equal |-> FALSE, err |-> TRUE]
    ELSE [equal |-> (b1 = b2), err |-> FALSE]

JudgeAlwaysAccepted(equal) == accepted

\* the verdict of a case whose run returned no error
Judge(equal) == IF equal THEN accepted ELSE wrongAnswer

StatusMsg(status) ==
    CASE status = accepted -> "AC"
      [] status = wrongAnswer -> "WA"
      [] status = runtimeError -> "RE"
      [] OTHER -> "??"

RunCaseFailedNever(errs) == FALSE

\* if multiErr != nil
RunCaseFailed(errs) == errs # <<>>

\* var slowestTime, slowestTestcaseName, acCount, waCount, tleCount, reCount
SummaryZero ==
    [slowestTime |-> 0, slowestTestcaseName |-> <<>>,
     acCount |-> 0, waCount |-> 0, tleCount |-> 0, reCount |-> 0]

\* the comparison that moves the slowest case
Slower(slowestTime, execTime) == slowestTime < execTime

CountStatusNoRE(sum, status) ==
    CASE status = accepted -> [sum EXCEPT !.acCount = @ + 1]
      [] status = wrongAnswer -> [sum EXCEPT !.waCount = @ + 1]
      [] status = timeLimitExceeded -> [sum EXCEPT !.tleCount = @ + 1]
      [] OTHER -> sum

\* switch v.status
CountStatus(sum, status) ==
    CASE status = accepted -> [sum EXCEPT !.acCount = @ + 1]
      [] status = wrongAnswer -> [sum EXCEPT !.waCount = @ + 1]
      [] status = timeLimitExceeded -> [sum EXCEPT !.tleCount = @ + 1]
      [] status = runtimeError -> [sum EXCEPT !.reCount = @ + 1]
      [] OTHER -> sum

\* for _, v := range runResults
RECURSIVE SummaryFold(_, _)
SummaryFold(results, sum) ==
    IF results = <<>> THEN sum
    ELSE LET v == Head(results)
             moved == IF Slower(sum.slowestTime, v.execTime)
                      THEN [sum EXCEPT !.slowestTime = v.execTime,
                                       !.slowestTestcaseName = v.testcaseName]
                      ELSE sum
         IN SummaryFold(Tail(results), CountStatus(moved, v.status))

Summary(results) == SummaryFold(results, SummaryZero)

-----------------------------------------------------------------------------
(* verify *)

Init ==
    /\ pc = "mkdir"
    /\ headers = <<>>
    /\ h = 0
    /\ downloadErr = <<>>
    /\ cacheEntries \in
         { CacheEntriesOf(s) :
             s \in { t \in SUBSET Stems : Cardinality(t) <= MaxCases } }
    /\ tmpDir = "none"
    /\ tmpFiles = {}
    /\ alive = {}
    /\ buildCmdStdErr = ""
    /\ envFailure = "none"
    /\ inFilepaths = <<>>
    /\ walkUnsorted = FALSE
    /\ idx = 0
    /\ openFiles = {}
    /\ answerBytes = <<>>
    /\ startTime = 0
    /\ now = 0
    /\ runErr = FALSE
    /\ elapsed = 0
    /\ runCalls = <<>>
    /\ multiErr = <<>>
    /\ runResults = <<>>
    /\ log = <<>>
    /\ ret = NoReturn

ReturnNoCleanup(r) ==
    /\ ret' = r
    /\ pc' = "done"
    /\ UNCHANGED <<tmpDir, tmpFiles>>

\* return r, with the deferred os.RemoveAll(tmpDir)
Return(r) ==
    /\ ret' = r
    /\ tmpDir' = "removed"
    /\ tmpFiles' = {}
    /\ pc' = "done"

\* continue, or the end of the loop body: the next iteration starts with
\* fresh locals
NextCase ==
    /\ idx' = idx + 1
    /\ pc' = "loop"
    /\ runErr' = FALSE
    /\ elapsed' = 0
    /\ startTime' = 0
    /\ answerBytes' = <<>>

\* tmpDir, err := os.MkdirTemp(".aoj-verify", "tmp")
MkdirTemp ==
    /\ pc = "mkdir"
    /\ \/ /\ tmpDir' = "present"
          /\ pc' = "build"
          /\ UNCHANGED <<ret, envFailure>>
       \/ /\ envFailure' = "mkdir"
          /\ ret' = MkdirError
          /\ pc' = "done"
          /\ UNCHANGED tmpDir
    /\ UNCHANGED mainVars
    /\ UNCHANGED <<cacheEntries, tmpFiles, alive, buildCmdStdErr, inFilepaths,
                   walkUnsorted, idx, openFiles, answerBytes, startTime, now,
                   runErr, elapsed, runCalls, multiErr, runResults, log>>

\* buildCmd.Run(): the toolchain starts
BuildStart ==
    /\ pc = "build"
    /\ alive' = alive \cup {<<"build", 0>>}
    /\ pc' = "buildwait"
    /\ UNCHANGED mainVars
    /\ UNCHANGED <<cacheEntries, tmpDir, tmpFiles, buildCmdStdErr, envFailure,
                   inFilepaths, walkUnsorted, idx, openFiles, answerBytes,
                   startTime, now, runErr, elapsed, runCalls, multiErr,
                   runResults, log, ret>>

\* buildCmd.Run() returns
BuildExit ==
    /\ pc = "buildwait"
    /\ alive' = alive \ {<<"build", 0>>}
    /\ \/ /\ tmpFiles' = TmpFilesWith(tmpFiles, BinaryFilepath)
          /\ cacheEntries' = CacheEntriesWith(cacheEntries, BinaryFilepath)
          /\ pc' = "walk"
          /\ UNCHANGED <<buildCmdStdErr, envFailure, tmpDir, ret>>
       \/ \E d \in Diagnostics :
            /\ buildCmdStdErr' = d
            /\ envFailure' = "build"
            /\ Return(BuildError(d))
            /\ UNCHANGED cacheEntries
    /\ UNCHANGED mainVars
    /\ UNCHANGED <<inFilepaths, walkUnsorted, idx, openFiles,
                   answerBytes, startTime, now, runErr, elapsed, runCalls,
                   multiErr, runResults, log>>

\* filepath.WalkDir(cacheDir, ...)
Walk ==
    /\ pc = "walk"
    /\ \/ /\ envFailure' = "walk"
          /\ Return(WalkError)
          /\ UNCHANGED <<inFilepaths, walkUnsorted>>
       \/ \E order \in WalkOrders({ e.path : e \in
                         { x \in cacheEntries : WalkFn(x.path, x.isDir) } }) :
            /\ inFilepaths' = order
            /\ walkUnsorted' =
                 (\E i, j \in 1..Len(order) :
                     i < j /\ StringLess(order[j], order[i]))
            /\ pc' = "sort"
            /\ UNCHANGED <<envFailure, tmpDir, tmpFiles, ret>>
    /\ UNCHANGED mainVars
    /\ UNCHANGED <<cacheEntries, alive, buildCmdStdErr, idx, openFiles,
                   answerBytes, startTime, now, runErr, elapsed, runCalls,
                   multiErr, runResults, log>>

\* slices.Sort(inFilepaths); var multiErr error; var runResults []*runResult
SortStep ==
    /\ pc = "sort"
    /\ inFilepaths' = SlicesSort(inFilepaths)
    /\ multiErr' = <<>>
    /\ runResults' = <<>>
    /\ idx' = 1
    /\ pc' = "loop"
    /\ UNCHANGED mainVars
    /\ UNCHANGED <<cacheEntries, tmpDir, tmpFiles, alive, buildCmdStdErr,
                   envFailure, walkUnsorted, openFiles, answerBytes,
                   startTime, now, runErr, elapsed, runCalls, log, ret>>

\* inFile, err := os.Open(inFilepath)
OpenInput ==
    /\ pc = "loop"
    /\ idx <= Len(inFilepaths)
    /\ \/ /\ openFiles' = openFiles \cup {<<"in", idx>>}
          /\ pc' = "create"
          /\ UNCHANGED <<multiErr, idx, runErr, elapsed, startTime,
                         answerBytes>>
       \/ /\ multiErr' = ErrorsJoin(multiErr, "failed to read .in file",
                                    inFilepaths[idx])
          /\ NextCase
          /\ UNCHANGED openFiles
    /\ UNCHANGED mainVars
    /\ UNCHANGED <<cacheEntries, tmpDir, tmpFiles, alive, buildCmdStdErr,
                   envFailure, inFilepaths, walkUnsorted, now, runCalls,
                   runResults, log, ret>>

\* answerFile, err := os.Create(answerFilepath)
CreateAnswer ==
    /\ pc = "create"
    /\ \/ /\ tmpFiles' = TmpFilesWith(tmpFiles,
                                     AnswerFilepath(TmpDirPath, idx))
          /\ cacheEntries' = CacheEntriesWith(cacheEntries,
                                     AnswerFilepath(TmpDirPath, idx))
          /\ openFiles' = openFiles \cup {<<"answer", idx>>}
          /\ answerBytes' = <<>>
          /\ pc' = "run"
          /\ UNCHANGED <<multiErr, idx, runErr, elapsed, startTime>>
       \/ /\ multiErr' = ErrorsJoin(multiErr, "failed to create answer file",
                                    inFilepaths[idx])
          /\ NextCase
          /\ UNCHANGED <<tmpFiles, openFiles, cacheEntries>>
    /\ UNCHANGED mainVars
    /\ UNCHANGED <<tmpDir, alive, buildCmdStdErr, envFailure,
                   inFilepaths, walkUnsorted, now, runCalls, runResults, log,
                   ret>>

\* stopwatch.Start(); runCmd.Run(): the solution starts, or fails to start
RunStart ==
    /\ pc = "run"
    /\ startTime' = StopwatchStart(now)
    /\ runCalls' = Append(runCalls, inFilepaths[idx])
    /\ \E started \in BOOLEAN :
         alive' = IF started THEN alive \cup {<<"case", idx>>} ELSE alive
    /\ pc' = "wait"
    /\ UNCHANGED mainVars
    /\ UNCHANGED <<cacheEntries, tmpDir, tmpFiles, buildCmdStdErr, envFailure,
                   inFilepaths, walkUnsorted, idx, openFiles, answerBytes,
                   now, runErr, elapsed, multiErr, runResults, log, ret>>

RunReturnNoWait ==
    /\ pc = "wait"
    /\ \E d \in 0..MaxElapsed :
         /\ now' = now + d
         /\ elapsed' = StopwatchElapsed(startTime, now + d)
    /\ \/ /\ <<"case", idx>> \notin alive
          /\ runErr' = TRUE
          /\ UNCHANGED answerBytes
       \/ /\ <<"case", idx>> \in alive
          /\ \E exitOk \in BOOLEAN, out \in Outputs :
               /\ runErr' = ~exitOk
               /\ answerBytes' = out
    /\ alive' = alive
    /\ pc' = "ran"
    /\ UNCHANGED mainVars
    /\ UNCHANGED <<cacheEntries, tmpDir, tmpFiles, buildCmdStdErr, envFailure,
                   inFilepaths, walkUnsorted, idx, openFiles, startTime,
                   runCalls, multiErr, runResults, log, ret>>

\* runCmd.Run() returns; elapsed := stopwatch.Elapsed(). The clock has moved
\* by d ticks meanwhile; d = 0 is a run shorter than the clock's granularity.
RunReturn ==
    /\ pc = "wait"
    /\ \E d \in 0..MaxElapsed :
         /\ now' = now + d
         /\ elapsed' = StopwatchElapsed(startTime, now + d)
    /\ \/ /\ <<"case", idx>> \notin alive
          /\ runErr' = TRUE
          /\ UNCHANGED answerBytes
       \/ /\ <<"case", idx>> \in alive
          /\ \E exitOk \in BOOLEAN, out \in Outputs :
               /\ runErr' = ~exitOk
               /\ answerBytes' = out
    /\ alive' = alive \ {<<"case", idx>>}
    /\ pc' = "ran"
    /\ UNCHANGED mainVars
    /\ UNCHANGED <<cacheEntries, tmpDir, tmpFiles, buildCmdStdErr, envFailure,
                   inFilepaths, walkUnsorted, idx, openFiles, startTime,
                   runCalls, multiErr, runResults, log, ret>>

RunErrorNotLogged ==
    /\ pc = "ran"
    /\ IF runErr
       THEN /\ runResults' = Append(runResults,
                 newRunResult(Base(inFilepaths[idx]), runtimeError, elapsed))
            /\ NextCase
            /\ UNCHANGED log
       ELSE /\ pc' = "close"
            /\ UNCHANGED <<log, runResults, idx, runErr, elapsed, startTime,
                           answerBytes>>
    /\ UNCHANGED mainVars
    /\ UNCHANGED <<cacheEntries, tmpDir, tmpFiles, alive, buildCmdStdErr,
                   envFailure, inFilepaths, walkUnsorted, openFiles, now,
                   runCalls, multiErr, ret>>

RunErrorFallsThrough ==
    /\ pc = "ran"
    /\ IF runErr
       THEN /\ log' = Append(log, CaseEntry("RE", Base(inFilepaths[idx]),
                                            elapsed))
            /\ runResults' = Append(runResults,
                 newRunResult(Base(inFilepaths[idx]), runtimeError, elapsed))
            /\ pc' = "close"
            /\ UNCHANGED <<idx, runErr, elapsed, startTime, answerBytes>>
       ELSE /\ pc' = "close"
            /\ UNCHANGED <<log, runResults, idx, runErr, elapsed, startTime,
                           answerBytes>>
    /\ UNCHANGED mainVars
    /\ UNCHANGED <<cacheEntries, tmpDir, tmpFiles, alive, buildCmdStdErr,
                   envFailure, inFilepaths, walkUnsorted, openFiles, now,
                   runCalls, multiErr, ret>>

RunErrorJoined ==
    /\ pc = "ran"
    /\ IF runErr
       THEN /\ log' = Append(log, CaseEntry("RE", Base(inFilepaths[idx]),
                                            elapsed))
            /\ runResults' = Append(runResults,
                 newRunResult(Base(inFilepaths[idx]), runtimeError, elapsed))
            /\ multiErr' = ErrorsJoin(multiErr, "failed to run",
                                      inFilepaths[idx])
            /\ NextCase
       ELSE /\ pc' = "close"
            /\ UNCHANGED <<log, runResults, idx, runErr, elapsed, startTime,
                           answerBytes, multiErr>>
    /\ UNCHANGED mainVars
    /\ UNCHANGED <<cacheEntries, tmpDir, tmpFiles, alive, buildCmdStdErr,
                   envFailure, inFilepaths, walkUnsorted, openFiles, now,
                   runCalls, ret>>

\* if err != nil { slog.Info("RE", ...); runResults = append(...); continue }
CheckRunErr ==
    /\ pc = "ran"
    /\ IF runErr
       THEN /\ log' = Append(log, CaseEntry("RE", Base(inFilepaths[idx]),
                                            elapsed))
            /\ runResults' = Append(runResults,
                 newRunResult(Base(inFilepaths[idx]), runtimeError, elapsed))
            /\ NextCase
       ELSE /\ pc' = "close"
            /\ UNCHANGED <<log, runResults, idx, runErr, elapsed, startTime,
                           answerBytes>>
    /\ UNCHANGED mainVars
    /\ UNCHANGED <<cacheEntries, tmpDir, tmpFiles, alive, buildCmdStdErr,
                   envFailure, inFilepaths, walkUnsorted, openFiles, now,
                   runCalls, multiErr, ret>>

CloseFilesForgotten ==
    /\ pc = "close"
    /\ pc' = "compare"
    /\ UNCHANGED mainVars
    /\ UNCHANGED <<cacheEntries, tmpDir, tmpFiles, alive, buildCmdStdErr,
                   envFailure, inFilepaths, walkUnsorted, idx, answerBytes,
                   startTime, now, runErr, elapsed, runCalls, multiErr,
                   runResults, log, ret, openFiles>>

\* inFile.Close(); answerFile.Close()
CloseFiles ==
    /\ pc = "close"
    /\ openFiles' = openFiles \ {<<"in", idx>>, <<"answer", idx>>}
    /\ pc' = "compare"
    /\ UNCHANGED mainVars
    /\ UNCHANGED <<cacheEntries, tmpDir, tmpFiles, alive, buildCmdStdErr,
                   envFailure, inFilepaths, walkUnsorted, idx, answerBytes,
                   startTime, now, runErr, elapsed, runCalls, multiErr,
                   runResults, log, ret>>

\* equal, err := filesAreEqual(answerFilepath, outFilepath), and the verdict
Compare ==
    /\ pc = "compare"
    /\ \E ioErr \in BOOLEAN :
         LET r == filesAreEqual(answerBytes,
                     CacheFileBytes(OutFilepath(inFilepaths[idx])), ioErr)
             status == Judge(r.equal)
         IN IF r.err
            THEN /\ multiErr' = ErrorsJoin(multiErr,
                      "failed to compare files", inFilepaths[idx])
                 /\ UNCHANGED <<log, runResults>>
            ELSE /\ log' = Append(log, CaseEntry(StatusMsg(status),
                                      Base(inFilepaths[idx]), elapsed))
                 /\ runResults' = Append(runResults,
                      newRunResult(Base(inFilepaths[idx]), status, elapsed))
                 /\ UNCHANGED multiErr
    /\ NextCase
    /\ UNCHANGED mainVars
    /\ UNCHANGED <<cacheEntries, tmpDir, tmpFiles, alive, buildCmdStdErr,
                   envFailure, inFilepaths, walkUnsorted, openFiles, now,
                   runCalls, ret>>

FinishOffByOne ==
    /\ pc = "loop"
    /\ idx > Len(inFilepaths) + 1
    /\ IF RunCaseFailed(multiErr)
       THEN /\ Return(RunCaseError(multiErr))
            /\ UNCHANGED log
       ELSE /\ log' = Append(log, SummaryEntry(Summary(runResults)))
            /\ Return(ReturnNil)
    /\ UNCHANGED mainVars
    /\ UNCHANGED <<cacheEntries, alive, buildCmdStdErr, envFailure,
                   inFilepaths, walkUnsorted, idx, openFiles, answerBytes,
                   startTime, now, runErr, elapsed, runCalls, multiErr,
                   runResults>>

FinishSummaryFirst ==
    /\ pc = "loop"
    /\ idx > Len(inFilepaths)
    /\ log' = Append(log, SummaryEntry(Summary(runResults)))
    /\ IF RunCaseFailed(multiErr)
       THEN Return(RunCaseError(multiErr))
       ELSE Return(ReturnNil)
    /\ UNCHANGED mainVars
    /\ UNCHANGED <<cacheEntries, alive, buildCmdStdErr, envFailure,
                   inFilepaths, walkUnsorted, idx, openFiles, answerBytes,
                   startTime, now, runErr, elapsed, runCalls, multiErr,
                   runResults>>

\* the end of the loop: the joined error, or the summary and nil
Finish ==
    /\ pc = "loop"
    /\ idx > Len(inFilepaths)
    /\ IF RunCaseFailed(multiErr)
       THEN /\ Return(RunCaseError(multiErr))
            /\ UNCHANGED log
       ELSE /\ log' = Append(log, SummaryEntry(Summary(runResults)))
            /\ Return(ReturnNil)
    /\ UNCHANGED mainVars
    /\ UNCHANGED <<cacheEntries, alive, buildCmdStdErr, envFailure,
                   inFilepaths, walkUnsorted, idx, openFiles, answerBytes,
                   startTime, now, runErr, elapsed, runCalls, multiErr,
                   runResults>>

Next ==
    \/ MkdirTemp
    \/ BuildStart
    \/ BuildExit
    \/ Walk
    \/ SortStep
    \/ OpenInput
    \/ CreateAnswer
    \/ RunStart
    \/ RunReturn
    \/ CheckRunErr
    \/ CloseFiles
    \/ Compare
    \/ Finish

Spec == Init /\ [][Next]_vars

-----------------------------------------------------------------------------
(* main: the download loop, run after run on the same cache directory *)

MainInit ==
    /\ pc = "header"
    /\ headers \in HeaderLists
    /\ h = 0
    /\ downloadErr = <<>>
    /\ cacheEntries = {}
    /\ tmpDir = "none"
    /\ tmpFiles = {}
    /\ alive = {}
    /\ buildCmdStdErr = ""
    /\ envFailure = "none"
    /\ inFilepaths = <<>>
    /\ walkUnsorted = FALSE
    /\ idx = 0
    /\ openFiles = {}
    /\ answerBytes = <<>>
    /\ startTime = 0
    /\ now = 0
    /\ runErr = FALSE
    /\ elapsed = 0
    /\ runCalls = <<>>
    /\ multiErr = <<>>
    /\ runResults = <<>>
    /\ log = <<>>
    /\ ret = NoReturn

\* fetchProblemTestcasesHeader(problemID); log.Fatal when it fails
FetchHeader ==
    /\ pc = "header"
    /\ \E ok \in BOOLEAN :
         IF ok
         THEN /\ pc' = "range"
              /\ h' = 1
         ELSE /\ pc' = "fatal"
              /\ UNCHANGED h
    /\ UNCHANGED <<headers, downloadErr, cacheEntries, verifyVars>>

\* isTestcaseCached(cacheDir, h.Name): continue
SkipCached ==
    /\ pc = "range"
    /\ h <= Len(headers)
    /\ isTestcaseCached(cacheEntries, CacheDirPath, headers[h])
    /\ h' = h + 1
    /\ UNCHANGED <<pc, headers, downloadErr, cacheEntries, verifyVars>>

\* fetchTestcaseAndSaveToFile(apiURL, cacheDir, h.Name), its error joined
Fetch ==
    /\ pc = "range"
    /\ h <= Len(headers)
    /\ ~isTestcaseCached(cacheEntries, CacheDirPath, headers[h])
    /\ \E outcome \in FetchOutcomes(cacheEntries, CacheDirPath, headers[h]) :
         /\ cacheEntries' =
              FetchEntries(cacheEntries, CacheDirPath, headers[h], outcome)
         /\ downloadErr' =
              IF outcome = "ok" THEN downloadErr
              ELSE Append(downloadErr,
                          [what |-> outcome, name |-> headers[h]])
    /\ h' = h + 1
    /\ UNCHANGED <<pc, headers, verifyVars>>

\* after the loop: log.Fatal(multiErr), or the call of verify
EndRange ==
    /\ pc = "range"
    /\ h > Len(headers)
    /\ pc' = IF downloadErr # <<>> THEN "fatal" ELSE "mkdir"
    /\ UNCHANGED <<headers, h, downloadErr, cacheEntries, verifyVars>>

\* the program is run again on the same problem
MainAgain ==
    /\ pc \in {"fatal", "mkdir"}
    /\ pc' = "header"
    /\ h' = 0
    /\ downloadErr' = <<>>
    /\ UNCHANGED <<headers, cacheEntries, verifyVars>>

MainNext ==
    \/ FetchHeader
    \/ SkipCached
    \/ Fetch
    \/ EndRange
    \/ MainAgain

MainSpec == MainInit /\ [][MainNext]_vars

-----------------------------------------------------------------------------

\* the steps verify takes by itself; the other two, BuildExit and RunReturn,
\* wait for a subprocess to exit
VerifySteps ==
    \/ MkdirTemp
    \/ BuildStart
    \/ Walk
    \/ SortStep
    \/ OpenInput
    \/ CreateAnswer
    \/ RunStart
    \/ CheckRunErr
    \/ CloseFiles
    \/ Compare
    \/ Finish

LiveInit ==
    /\ Init
    /\ Cardinality({ e \in cacheEntries : WalkFn(e.path, e.isDir) })
         <= MaxLiveCases

\* verify keeps running, and every subprocess it waits for exits
FairSpec ==
    /\ LiveInit
    /\ [][Next]_vars
    /\ WF_vars(VerifySteps)
    /\ WF_vars(BuildExit)
    /\ WF_vars(RunReturn)

-----------------------------------------------------------------------------
(* What the properties speak of *)

\* the input files the cache directory holds
InputFiles ==
    { e.path : e \in { x \in cacheEntries :
        /\ ~x.isDir
        /\ Len(x.path) >= 3
        /\ x.path[Len(x.path) - 2] = 46
        /\ x.path[Len(x.path) - 1] = 105
        /\ x.path[Len(x.path)] = 110 } }

\* the loop over the input files was entered
LoopEntered == pc \in {"loop", "create", "run", "wait", "ran", "close",
                       "compare"}
               \/ (pc = "done" /\ ret.kind \in {"nil", "runcase"})

\* the loop over the input files is over
LoopOver == \/ (pc = "loop" /\ idx > Len(inFilepaths))
            \/ (pc = "done" /\ ret.kind \in {"nil", "runcase"})

SummaryIndexes == { i \in 1..Len(log) : log[i].msg = "summary" }

ResultIndexes(path) ==
    { k \in 1..Len(runResults) :
        runResults[k].testcaseName \o SuffixIn = path }

ErrorIndexes(path) == { k \in 1..Len(multiErr) : multiErr[k].path = path }

StatusCount(status) ==
    Cardinality({ k \in 1..Len(runResults) : runResults[k].status = status })

StrictlyAscending(paths) ==
    \A i, j \in 1..Len(paths) : i < j => StringLess(paths[i], paths[j])

-----------------------------------------------------------------------------
(* Properties *)

\* C1: when the build fails, verify has returned the build error with the
\* captured diagnostics of the toolchain, no test case was run, there is no
\* RunResult, no log entry for a case and no summary.
C1_BuildFailureAborts ==
    envFailure = "build" =>
        /\ pc = "done"
        /\ alive = {}
        /\ ret.kind = "build"
        /\ ret.diag = buildCmdStdErr
        /\ runCalls = <<>>
        /\ runResults = <<>>
        /\ log = <<>>

C1_Witness ==
    /\ envFailure = "build"
    /\ pc = "done"
    /\ buildCmdStdErr = "syntax error"
    /\ Cardinality(InputFiles) >= 2

\* C2: verify returns failure exactly when the scratch directory could not be
\* created, the build failed, the walk failed or a per-case error was joined;
\* when none of these happened it returns nil, whatever the verdicts are.
C2_FailureIffInfrastructure ==
    pc = "done" =>
        /\ ret.kind \in {"nil", "mkdir", "build", "walk", "runcase"}
        /\ (ret.kind # "nil") <=> (envFailure # "none" \/ multiErr # <<>>)
        /\ (ret.kind = "mkdir") <=> (envFailure = "mkdir")
        /\ (ret.kind = "build") <=> (envFailure = "build")
        /\ (ret.kind = "walk") <=> (envFailure = "walk")
        /\ (ret.kind = "runcase") <=> (multiErr # <<>>)
        /\ (/\ envFailure = "none"
            /\ \A i \in 1..Len(inFilepaths) :
                   ResultIndexes(inFilepaths[i]) # {})
           => ret.kind = "nil"

C2_Witness ==
    /\ pc = "done"
    /\ ret.kind = "nil"
    /\ StatusCount(runtimeError) >= 1
    /\ StatusCount(wrongAnswer) >= 1

\* C3: the summary is written once when verify returns nil and never when it
\* returns an error; with a joined per-case error there is no summary, even
\* though RunResults were collected.
C3_SummaryAllOrNothing ==
    /\ Cardinality(SummaryIndexes) <= 1
    /\ SummaryIndexes # {} => pc = "done"
    /\ pc = "done" =>
         Cardinality(SummaryIndexes) = (IF ret.kind = "nil" THEN 1 ELSE 0)
    /\ multiErr # <<>> => SummaryIndexes = {}

C3_Witness ==
    /\ pc = "done"
    /\ ret.kind = "runcase"
    /\ Len(runResults) >= 2
    /\ SummaryIndexes = {}

\* the verdict the run and the two files of the current case call for
VerdictDue ==
    IF runErr THEN runtimeError
    ELSE IF answerBytes = CacheFileBytes(OutFilepath(inFilepaths[idx])) THEN accepted
    ELSE wrongAnswer

\* the position of a test case in the iteration
Position(testcaseName) ==
    CHOOSE k \in 1..Len(inFilepaths) :
        inFilepaths[k] = testcaseName \o SuffixIn

\* the case at position k was taken up: it has a RunResult or a joined error
Attempted(k) ==
    ResultIndexes(inFilepaths[k]) # {} \/ ErrorIndexes(inFilepaths[k]) # {}

\* C4: when the run of a case returns an error, a RunResult with the verdict
\* runtimeError is appended for that case, nothing is joined to multiErr and
\* the loop goes on with the next case; no case after it is left out.
C4_RunErrorContinues ==
    /\ [][(pc = "ran" /\ runErr) =>
            /\ runResults' = Append(runResults,
                 [testcaseName |-> SubSeq(inFilepaths[idx], 1,
                                          Len(inFilepaths[idx]) - 3),
                  status |-> runtimeError, execTime |-> elapsed])
            /\ multiErr' = multiErr
            /\ idx' = idx + 1
            /\ pc' = "loop"
            /\ ret' = ret]_vars
    /\ [](LoopEntered =>
            \A r \in 1..Len(runResults) :
                runResults[r].status = runtimeError =>
                    \A k \in 1..Len(inFilepaths) :
                        (/\ k > Position(runResults[r].testcaseName)
                         /\ (pc = "done" \/ k < idx))
                        => Attempted(k))
    /\ [](pc = "done" /\ LoopEntered => idx = Len(inFilepaths) + 1)

C4_Witness ==
    /\ pc = "done"
    /\ Len(runResults) = 3
    /\ runResults[1].status = runtimeError
    /\ runResults[2].status # runtimeError
    /\ multiErr = <<>>

\* C5: a RunResult is appended with the verdict runtimeError when the run
\* returned an error, whatever the answer file holds, with accepted when the
\* run returned no error and the answer file equals the expected output, and
\* with wrongAnswer when the run returned no error and the files differ; a
\* case whose run returned and whose files could be compared gets a verdict.
C5_VerdictIsFunctionOfRunAndOutput ==
    /\ [][Len(runResults') > Len(runResults) =>
            /\ pc \in {"ran", "compare"}
            /\ Len(runResults') = Len(runResults) + 1
            /\ runResults'[Len(runResults')].status = VerdictDue]_vars
    /\ [][(pc = "ran" /\ runErr) =>
            Len(runResults') = Len(runResults) + 1]_vars
    /\ [][pc = "compare" =>
            /\ ~runErr
            /\ \/ Len(runResults') = Len(runResults) + 1
               \/ Len(multiErr') = Len(multiErr) + 1]_vars

C5_Witness ==
    /\ StatusCount(accepted) >= 1
    /\ StatusCount(wrongAnswer) >= 1
    /\ StatusCount(runtimeError) >= 1

\* C6: every input file has at most one RunResult, and exactly one at the end
\* of the loop when no error was joined for it; the RunResults are in the
\* order of the iteration; a RunResult once appended is never changed or
\* removed.
C6_OneResultPerCase ==
    /\ [](LoopEntered =>
            /\ \A r \in 1..Len(runResults) :
                 \E k \in 1..Len(inFilepaths) :
                     /\ k <= idx
                     /\ inFilepaths[k] =
                            runResults[r].testcaseName \o SuffixIn
            /\ \A k \in 1..Len(inFilepaths) :
                 Cardinality(ResultIndexes(inFilepaths[k])) <= 1
            /\ \A r1, r2 \in 1..Len(runResults) :
                 r1 < r2 => Position(runResults[r1].testcaseName)
                              < Position(runResults[r2].testcaseName))
    /\ [](LoopOver =>
            \A k \in 1..Len(inFilepaths) :
                ErrorIndexes(inFilepaths[k]) = {}
                    => Cardinality(ResultIndexes(inFilepaths[k])) = 1)
    /\ [][\/ runResults' = runResults
          \/ /\ Len(runResults') = Len(runResults) + 1
             /\ SubSeq(runResults', 1, Len(runResults)) = runResults]_vars

C6_Witness ==
    /\ pc = "done"
    /\ Len(runResults) = 3
    /\ runResults[1].status = accepted
    /\ runResults[2].status = wrongAnswer
    /\ runResults[3].status = runtimeError
    /\ log[Len(log)].msg = "summary"
    /\ log[Len(log)].counts = <<1, 1, 0, 1>>

\* C7: the test cases are run in ascending bytewise order of their input
\* paths, whatever order the walk reported them in: the slice iterated, the
\* runs, the log entries and the RunResults follow the one ascending sequence
\* of the input files of the cache directory.
C7_RunOrderIsLexicographic ==
    LoopEntered =>
        /\ { inFilepaths[k] : k \in 1..Len(inFilepaths) } = InputFiles
        /\ Len(inFilepaths) = Cardinality(InputFiles)
        /\ StrictlyAscending(inFilepaths)
        /\ StrictlyAscending(runCalls)
        /\ StrictlyAscending([r \in 1..Len(runResults) |->
                                 runResults[r].testcaseName \o SuffixIn])
        /\ \A i, j \in 1..Len(log) \ SummaryIndexes :
             i < j => StringLess(log[i].testcase \o SuffixIn,
                                 log[j].testcase \o SuffixIn)

C7_Witness ==
    /\ walkUnsorted
    /\ pc = "done"
    /\ Len(runCalls) = 3
    /\ Len(runResults) = 3

\* C8: in every summary the counts of accepted, wrongAnswer,
\* timeLimitExceeded and runtimeError are the numbers of RunResults with
\* that verdict, and they add up to the number of RunResults.
C8_CountsPartitionResults ==
    \A i \in SummaryIndexes :
        /\ log[i].counts =
             <<StatusCount(accepted), StatusCount(wrongAnswer),
               StatusCount(timeLimitExceeded), StatusCount(runtimeError)>>
        /\ log[i].counts[1] + log[i].counts[2] + log[i].counts[3]
             + log[i].counts[4] = Len(runResults)

C8_Witness ==
    /\ SummaryIndexes # {}
    /\ StatusCount(runtimeError) = 2
    /\ StatusCount(accepted) = 1

MaxExecTime ==
    CHOOSE t \in { runResults[k].execTime : k \in 1..Len(runResults) } :
        \A k \in 1..Len(runResults) : runResults[k].execTime <= t

FirstSlowest ==
    CHOOSE k \in 1..Len(runResults) :
        /\ runResults[k].execTime = MaxExecTime
        /\ \A j \in 1..(k - 1) : runResults[j].execTime < MaxExecTime

\* C9: for a non-empty list of RunResults the summary names the first
\* RunResult whose time is the largest time of the list, and gives that time.
C9_SlowestIsFirstMaximum ==
    \A i \in SummaryIndexes :
        runResults # <<>> =>
            /\ log[i].time = MaxExecTime
            /\ log[i].testcase = runResults[FirstSlowest].testcaseName

\* C10: with a successful build and a cache directory without input files,
\* no test case is run, there is no RunResult, the summary has four zero
\* counts, a zero slowest time and an empty slowest case, and verify returns
\* nil.
C10_EmptyCacheDirectory ==
    InputFiles = {} =>
        /\ runCalls = <<>>
        /\ runResults = <<>>
        /\ alive \subseteq {<<"build", 0>>}
        /\ (pc = "done" /\ envFailure = "none") =>
             /\ ret.kind = "nil"
             /\ log = << [msg |-> "summary", testcase |-> <<>>, time |-> 0,
                          counts |-> <<0, 0, 0, 0>>] >>

C10_Witness ==
    /\ InputFiles = {}
    /\ pc = "done"
    /\ envFailure = "none"
    /\ ret.kind = "nil"

\* C11: an error of opening the input, creating the answer file or comparing
\* the files is joined to multiErr and the loop goes on: the case gets no
\* RunResult, every later case is taken up, and after the loop verify returns
\* one error holding every joined error.
C11_InfrastructureErrorsCollected ==
    /\ [][Len(multiErr') > Len(multiErr) =>
            /\ pc \in {"loop", "create", "compare"}
            /\ Len(multiErr') = Len(multiErr) + 1
            /\ SubSeq(multiErr', 1, Len(multiErr)) = multiErr
            /\ multiErr'[Len(multiErr')].path = inFilepaths[idx]
            /\ runResults' = runResults
            /\ idx' = idx + 1
            /\ pc' = "loop"
            /\ ret' = ret]_vars
    /\ [](LoopEntered =>
            /\ \A e \in 1..Len(multiErr) :
                 /\ multiErr[e].what \in {"failed to read .in file",
                                          "failed to create answer file",
                                          "failed to compare files"}
                 /\ ResultIndexes(multiErr[e].path) = {}
                 /\ Cardinality(ErrorIndexes(multiErr[e].path)) = 1
            /\ \A k \in 1..Len(inFilepaths) :
                 (pc = "done" \/ k < idx) => Attempted(k))
    /\ [](pc = "done" /\ LoopEntered =>
            /\ idx = Len(inFilepaths) + 1
            /\ multiErr # <<>> => (ret.kind = "runcase" /\ ret.errs = multiErr))

C11_Witness ==
    /\ pc = "done"
    /\ ret.kind = "runcase"
    /\ Len(ret.errs) = 2
    /\ ret.errs[1].what = "failed to read .in file"
    /\ ret.errs[2].what = "failed to compare files"
    /\ Len(runResults) = 1
    /\ Position(runResults[1].testcaseName) = 2

C13_OneSubprocessAtATime ==
    /\ Cardinality(alive) <= 1
    /\ alive # {} => pc \in {"buildwait", "wait"}
    /\ <<"build", 0>> \in alive => (pc = "buildwait" /\ runCalls = <<>>)
    /\ \A a \in alive :
         a[1] = "case" =>
             /\ pc = "wait"
             /\ a[2] = idx
             /\ Len(runCalls) >= 1
             /\ runCalls[Len(runCalls)] = inFilepaths[idx]

C13_Witness ==
    /\ pc = "wait"
    /\ alive = {<<"case", 3>>}
    /\ Len(runCalls) = 3

\* C15: verify leaves the cache directory as it found it: no entry is added,
\* removed or changed; the built artifact and every answer file are created
\* below the scratch directory.
C15_CacheDirectoryReadOnly ==
    /\ [][cacheEntries' = cacheEntries]_vars
    /\ [](\A f \in tmpFiles :
            /\ Len(f) > 2
            /\ f[1] = 116
            /\ f[2] = 47)
    /\ [](pc \in {"walk", "sort", "loop", "create", "run", "wait", "ran",
                  "close", "compare"}
            => <<116, 47, 109, 97, 105, 110>> \in tmpFiles)
    /\ [][(pc = "create" /\ pc' = "run") =>
            Cardinality(tmpFiles') = Cardinality(tmpFiles) + 1]_vars

C15_Witness ==
    /\ pc = "loop"
    /\ Cardinality(tmpFiles) = 4
    /\ Cardinality(InputFiles) = 3

\* the message a verdict is logged with
MsgDue(status) ==
    CASE status = accepted -> "AC"
      [] status = wrongAnswer -> "WA"
      [] status = runtimeError -> "RE"
      [] status = timeLimitExceeded -> "TLE"
      [] OTHER -> ""

\* the entries of the log about the test case of an input file
CaseEntryIndexes(path) ==
    { i \in 1..Len(log) \ SummaryIndexes : log[i].testcase \o SuffixIn = path }

\* C14 as stated: when the loop is over the log holds exactly one entry for
\* every input file found and ends with the one summary entry.
C14_OneEntryPerDiscoveredCase ==
    (pc = "done" /\ LoopEntered) =>
        /\ \A k \in 1..Len(inFilepaths) :
             Cardinality(CaseEntryIndexes(inFilepaths[k])) = 1
        /\ SummaryIndexes = {Len(log)}

\* C14, amended: the log holds one entry for every RunResult, with its
\* verdict and time, written when the RunResult is appended and so before the
\* next test case is started, and no entry for a case whose error was joined;
\* the summary entry comes last, after these entries, and only when verify
\* returns nil.
C14_LogFollowsResults ==
    /\ Len(log) = Len(runResults) + Cardinality(SummaryIndexes)
    /\ \A r \in 1..Len(runResults) :
         log[r] = [msg |-> MsgDue(runResults[r].status),
                   testcase |-> runResults[r].testcaseName,
                   time |-> runResults[r].execTime,
                   counts |-> <<>>]
    /\ \A e \in 1..Len(multiErr) : CaseEntryIndexes(multiErr[e].path) = {}
    /\ SummaryIndexes \subseteq {Len(log)}
    /\ SummaryIndexes # {} <=> (pc = "done" /\ ret.kind = "nil")

C14_Witness ==
    /\ pc = "wait"
    /\ idx = 3
    /\ Len(multiErr) = 1
    /\ Len(runResults) = 1
    /\ Len(log) = 1

\* C16: when an iteration of the loop is over, and when verify has returned,
\* no input file and no answer file is still open.
C16_NoHandleOpenBetweenCases ==
    pc \in {"loop", "done"} => openFiles = {}

\* C17: filesAreEqual is called for a test case only after its subprocess has
\* exited without an error and after its input file and its answer file have
\* been closed.
C17_CompareAfterExitAndClose ==
    /\ pc = "compare" =>
         /\ alive = {}
         /\ <<"in", idx>> \notin openFiles
         /\ <<"answer", idx>> \notin openFiles
         /\ Len(runCalls) >= 1
         /\ runCalls[Len(runCalls)] = inFilepaths[idx]
    /\ pc \in {"close", "compare"} => ~runErr

C17_Witness ==
    /\ pc = "compare"
    /\ idx = 2
    /\ openFiles = {<<"in", 1>>, <<"answer", 1>>}

\* C18: no RunResult has the verdict timeLimitExceeded or unknown, whatever
\* its time, and the count of timeLimitExceeded in the summary is 0.
C18_NoTimeLimitExceeded ==
    /\ \A r \in 1..Len(runResults) :
         /\ runResults[r].status # timeLimitExceeded
         /\ runResults[r].status # unknown
         /\ runResults[r].status \in {accepted, wrongAnswer, runtimeError}
    /\ \A i \in SummaryIndexes : log[i].counts[3] = 0

C18_Witness ==
    /\ SummaryIndexes # {}
    /\ Len(runResults) = 3
    /\ \A r \in 1..3 : runResults[r].execTime = 2

\* C19: when the build and every test case's subprocess exit, verify
\* returns, having taken up every input file once; while the subprocess of a
\* test case runs, verify takes no step but that subprocess's exit: it has
\* not returned, starts no other case and writes no summary.
C19_ReturnsIffSubprocessesExit ==
    /\ <>(pc = "done")
    /\ [](pc = "done" /\ LoopEntered =>
            /\ idx = Len(inFilepaths) + 1
            /\ \A k \in 1..Len(inFilepaths) :
                 Cardinality(ResultIndexes(inFilepaths[k]))
                   + Cardinality(ErrorIndexes(inFilepaths[k])) = 1)
    /\ [][(pc = "wait" /\ <<"case", idx>> \in alive) =>
            /\ <<"case", idx>> \notin alive'
            /\ runCalls' = runCalls
            /\ log' = log
            /\ ret' = ret]_vars
    /\ [][(pc = "buildwait" /\ <<"build", 0>> \in alive) =>
            <<"build", 0>> \notin alive']_vars
    /\ [](alive # {} =>
            /\ ret.kind = "pending"
            /\ SummaryIndexes = {})

C19_Witness ==
    /\ pc = "done"
    /\ Len(runCalls) = 2
    /\ Len(runResults) = 1
    /\ Len(multiErr) = 1

\* C20: whatever download attempts main made, complete or failed part-way,
\* every test case isTestcaseCached reports as cached, and every input file
\* the walk of verify would report, has its .out file next to it.
C20_CachedCaseHasBothFiles ==
    /\ \A k \in 1..Len(headers) :
         isTestcaseCached(cacheEntries, CacheDirPath, headers[k]) =>
           existsFileOrDir(cacheEntries,
                           Join(CacheDirPath, headers[k] \o SuffixOut))
    /\ \A e \in cacheEntries :
         WalkFn(e.path, e.isDir) =>
           existsFileOrDir(cacheEntries, OutFilepath(e.path))

====
